---- MODULE Spec2Model ----
(***************************************************************************)
(* Model of the serverless dataset-augmentation pipeline:                  *)
(*   lambda_function.py   (lambda_handler, get_text_from_record)           *)
(*   utils/data_utils.py  (process_data)                                   *)
(*   utils/openai_utils.py (get_openai_insights)                           *)
(*   utils/serialization.py (serialize_output)                             *)
(*                                                                         *)
(* Text is a sequence of atoms.  The atoms of input text and of the        *)
(* "Record N: " prefix are single characters, so Len is the Python len();  *)
(* fixed literals of the code whose length is never measured are kept as   *)
(* one atom.  A value is [t, s]: t is the Python type, s the text payload. *)
(* A record (a dict) is a sequence of [k, v] fields in insertion order.    *)
(***************************************************************************)
EXTENDS Integers, Sequences, FiniteSets, TLC

\* ------------------------------------------------------------------ bounds

\* Largest number of records in a dataset.
MaxRecords == 3

\* Longest text field of an input record, in characters.
MaxTextLen == 2

\* ------------------------------------------------------- program constants

MAX_RETRIES == 3

INITIAL_BACKOFF == 1

MAX_BACKOFF == 30

\* TEXT_COLUMN_NAME: the default when the environment does not set it.
TEXT_COLUMN_NAME == "text_column"

\* ------------------------------------------------------------------ values

Str(s) == [t |-> "str", s |-> s]

Num(s) == [t |-> "num", s |-> s]

\* Python None.
None == [t |-> "none", s |-> <<>>]

\* A list-valued field (the rest of an over-long CSV row).
List(s) == [t |-> "list", s |-> s]

\* isinstance(value, str)
IsStr(v) == v.t = "str"

\* Python truthiness of an optional text: `if text:` / `if not text:`.
Truthy(v) == v.t = "str" /\ Len(v.s) > 0

Alphabet == <<"a", "b", "c", "d", "e", "f">>

\* The input text of n characters.
Text(n) == SubSeq(Alphabet, 1, n)

DigitChar == <<"0", "1", "2", "3", "4", "5", "6", "7", "8", "9">>

RECURSIVE DecimalDigits(_)
\* str(n) for n >= 0, one atom per digit.
DecimalDigits(n) ==
    IF n < 10 THEN <<DigitChar[n + 1]>>
    ELSE DecimalDigits(n \div 10) \o <<DigitChar[(n % 10) + 1]>>

\* s[:n] of Python: the first n elements, all of s when n >= len(s), and for a
\* negative n all but the last -n elements.
PySliceOffByOne(s, n) ==
    LET m == n + 1
        e == IF m >= 0 THEN (IF m < Len(s) THEN m ELSE Len(s))
             ELSE (IF Len(s) + m > 0 THEN Len(s) + m ELSE 0)
    IN  SubSeq(s, 1, e)

PySlice(s, n) ==
    LET e == IF n >= 0 THEN (IF n < Len(s) THEN n ELSE Len(s))
             ELSE (IF Len(s) + n > 0 THEN Len(s) + n ELSE 0)
    IN  SubSeq(s, 1, e)

\* ----------------------------------------------------------------- records

Field(k, v) == [k |-> k, v |-> v]

\* key in record
HasKey(rec, k) == \E i \in 1..Len(rec) : rec[i].k = k

\* record[key], for a key the record has.
Get(rec, k) == rec[CHOOSE i \in 1..Len(rec) : rec[i].k = k].v

\* list(record.keys()), in insertion order.
Keys(rec) == [i \in 1..Len(rec) |-> rec[i].k]

KeySet(rec) == {rec[i].k : i \in 1..Len(rec)}

\* A faulty assignment that replaces the whole record by the one field.
SetFieldReplacing(rec, k, v) == <<Field(k, v)>>

\* record[key] = value: an existing key keeps its position, a new key is
\* appended.
SetField(rec, k, v) ==
    IF HasKey(rec, k)
    THEN [i \in 1..Len(rec) |-> IF rec[i].k = k THEN Field(k, v) ELSE rec[i]]
    ELSE Append(rec, Field(k, v))

\* ---------------------------------------------------- get_text_from_record

RECURSIVE FirstStr(_)
\* The fallback loop over record.values(): the first str value, or None.
FirstStr(rec) ==
    IF rec = <<>> THEN None
    ELSE IF IsStr(rec[1].v) THEN rec[1].v
    ELSE FirstStr(Tail(rec))

\* A resolver that tries 'text_column' before 'text_content'.
ResolveTextSwapped(rec, preferred) ==
    IF HasKey(rec, preferred) /\ IsStr(Get(rec, preferred))
    THEN Get(rec, preferred)
    ELSE IF HasKey(rec, "text_column") /\ IsStr(Get(rec, "text_column"))
    THEN Get(rec, "text_column")
    ELSE IF HasKey(rec, "text_content") /\ IsStr(Get(rec, "text_content"))
    THEN Get(rec, "text_content")
    ELSE FirstStr(rec)

\* The body of get_text_from_record (lines 41-57) for the configured name.
ResolveText(rec, preferred) ==
    IF HasKey(rec, preferred) /\ IsStr(Get(rec, preferred))
    THEN Get(rec, preferred)
    ELSE IF HasKey(rec, "text_content") /\ IsStr(Get(rec, "text_content"))
    THEN Get(rec, "text_content")
    ELSE IF HasKey(rec, "text_column") /\ IsStr(Get(rec, "text_column"))
    THEN Get(rec, "text_column")
    ELSE FirstStr(rec)

\* ------------------------------------------------------------ input files

\* An element of a parsed dataset: a mapping (t = "obj", rec its fields) or a
\* JSON value that is not a mapping (t = "scalar" or "list").
Obj(rec) == [t |-> "obj", rec |-> rec]

Scalar == [t |-> "scalar", rec |-> <<>>]

\* A JSON value: an object, a scalar, or an array of objects and scalars.
JObj(rec) == [t |-> "obj", rec |-> rec, items |-> <<>>]

JScalar == [t |-> "scalar", rec |-> <<>>, items |-> <<>>]

JList(items) == [t |-> "list", rec |-> <<>>, items |-> items]

\* One line of a text file.  kind "blank": empty; "json": the line is the
\* JSON text of val; "row": a CSV row of cells; "bad": text that neither the
\* JSON decoder nor the CSV reader accepts.  txt is the stripped line.
BlankLine == [kind |-> "blank", txt |-> <<>>, val |-> JScalar, cells |-> <<>>]

BadLine == [kind |-> "bad", txt |-> <<"?">>, val |-> JScalar, cells |-> <<>>]

JsonLine(val) == [kind |-> "json", txt |-> <<"<json>">>, val |-> val, cells |-> <<>>]

RowLine(cells) == [kind |-> "row", txt |-> <<"<row>">>, val |-> JScalar, cells |-> cells]

TextLine(txt) == [kind |-> "row", txt |-> txt, val |-> JScalar, cells |-> <<Str(txt)>>]

\* The bytes of a file.  kind "empty": zero bytes; "text": UTF-8 text made of
\* lines; "bad_utf8": bytes that are no UTF-8 text and no Parquet table;
\* "parquet": a Parquet table of rows.
EmptyBytes == [kind |-> "empty", lines |-> <<>>, rows |-> <<>>]

TextBytes(lines) == [kind |-> "text", lines |-> lines, rows |-> <<>>]

BadUtf8Bytes == [kind |-> "bad_utf8", lines |-> <<>>, rows |-> <<>>]

ParquetBytes(rows) == [kind |-> "parquet", lines |-> <<>>, rows |-> rows]

\* ------------------------------------------------------------ process_data

\* The outcome of a step of the parser: the records so far and the exception
\* raised ("none" when none was).
Parsed(records) == [records |-> records, exc |-> "none"]

Raised(exc) == [records |-> <<>>, exc |-> exc]

NonBlank(lines) == SelectSeq(lines, LAMBDA l : l.kind # "blank")

\* csv.DictReader's row: dict(zip(fieldnames, row)), the cells past the header
\* under the key None, the missing trailing fields None.
RECURSIVE ZipRow(_, _, _)
ZipRow(names, cells, acc) ==
    IF names = <<>>
    THEN IF cells = <<>> THEN acc
         ELSE SetField(acc, "<None>", List(<<>>))
    ELSE IF cells = <<>>
    THEN ZipRow(Tail(names), cells, SetField(acc, names[1].s[1], None))
    ELSE ZipRow(Tail(names), Tail(cells), SetField(acc, names[1].s[1], cells[1]))

RECURSIVE CsvRows(_, _, _)
\* for row in reader: records.append(dict(row)); a blank line is skipped, a
\* line the reader rejects raises csv.Error.
CsvRows(names, lines, acc) ==
    IF lines = <<>> THEN Parsed(acc)
    ELSE IF lines[1].kind = "bad" THEN Raised("csv.Error")
    ELSE IF lines[1].kind = "blank" THEN CsvRows(names, Tail(lines), acc)
    ELSE CsvRows(names, Tail(lines),
                 Append(acc, Obj(ZipRow(names, lines[1].cells, <<>>))))

\* The csv branch (lines 41-48): the first line is the header.
ParseCsv(bytes) ==
    IF bytes.kind # "text" THEN Raised("UnicodeDecodeError")
    ELSE IF bytes.lines[1].kind = "bad" THEN Raised("csv.Error")
    ELSE CsvRows(bytes.lines[1].cells, Tail(bytes.lines), <<>>)

\* json.loads of the whole text: it holds one JSON value exactly when one
\* line is not blank and that line is JSON text (a value spans one line).
JsonLoads(lines) ==
    LET nb == NonBlank(lines)
    IN  IF Len(nb) = 1 /\ nb[1].kind = "json"
        THEN [ok |-> TRUE, val |-> nb[1].val]
        ELSE [ok |-> FALSE, val |-> JScalar]

RECURSIVE JsonLinesLoop(_, _)
\* The JSON Lines loop (lines 64-68): every non-blank line is decoded and
\* appended, whatever value it holds.
JsonLinesLoop(lines, acc) ==
    IF lines = <<>> THEN Parsed(acc)
    ELSE IF lines[1].kind = "blank" THEN JsonLinesLoop(Tail(lines), acc)
    ELSE IF lines[1].kind # "json" THEN Raised("JSONDecodeError")
    ELSE JsonLinesLoop(Tail(lines),
                       Append(acc, [t |-> lines[1].val.t, rec |-> lines[1].val.rec]))

\* The json branch (lines 50-69).
ParseJson(bytes) ==
    IF bytes.kind # "text" THEN Raised("UnicodeDecodeError")
    ELSE LET data == JsonLoads(bytes.lines)
         IN  IF ~data.ok THEN Raised("JSONDecodeError")
             ELSE IF data.val.t = "list"
             THEN IF \A i \in 1..Len(data.val.items) : data.val.items[i].t = "obj"
                  THEN Parsed(data.val.items)
                  ELSE Raised("not all items are objects")
             ELSE IF data.val.t = "obj"
             THEN Parsed(<<Obj(data.val.rec)>>)
             ELSE JsonLinesLoop(bytes.lines, <<>>)

\* The txt branch (lines 71-81): one record per non-blank line.
ParseTxt(bytes) ==
    IF bytes.kind # "text" THEN Raised("UnicodeDecodeError")
    ELSE LET lines == NonBlank(bytes.lines)
             records == [i \in 1..Len(lines) |->
                            Obj(<<Field("line_number", Num(DecimalDigits(i))),
                                  Field("text_content", Str(lines[i].txt))>>)]
         IN  IF records = <<>> /\ lines # <<>>
             THEN Parsed(<<Obj(<<Field("line_number", Num(DecimalDigits(1))),
                                 Field("text_content", Str(lines[1].txt))>>)>>)
             ELSE Parsed(records)

\* The parquet branch (lines 83-92).
ParseParquet(bytes, pyarrow) ==
    IF ~pyarrow THEN Raised("ImportError")
    ELSE IF bytes.kind # "parquet" THEN Raised("ArrowInvalid")
    ELSE Parsed(bytes.rows)

\* The try block of process_data (lines 40-97), by file type.
ParseBody(bytes, file_type, pyarrow) ==
    IF file_type = "csv" THEN ParseCsv(bytes)
    ELSE IF file_type = "json" THEN ParseJson(bytes)
    ELSE IF file_type = "txt" THEN ParseTxt(bytes)
    ELSE IF file_type = "parquet" THEN ParseParquet(bytes, pyarrow)
    ELSE Raised("unsupported file type")

\* process_data(file_content_bytes, file_key): empty content returns no
\* records; every exception of the try block is caught and returns [].
ProcessData(bytes, file_type, pyarrow) ==
    IF bytes.kind = "empty" THEN <<>>
    ELSE LET body == ParseBody(bytes, file_type, pyarrow)
         IN  IF body.exc # "none" THEN <<>> ELSE body.records

\* ----------------------------------------------------- get_openai_insights

\* What the chat-completion service answers to one attempt: content, a
\* response without content, an openai.APIError with status 429, 500 or 400,
\* or an exception that is no APIError.
Responses == {"ok", "no_content", "api_429", "api_500", "api_400", "other"}

IsAPIError(resp) == resp \in {"api_429", "api_500", "api_400"}

\* The insight the service returns for a prompt.
InsightFor(p) == <<"insight: ">> \o p

\* A retry count that is not advanced.
NextRetryStuck(r) == r

\* current_retry += 1
NextRetry(r) == r + 1

\* backoff_period = min(backoff_period * 2, MAX_BACKOFF)
NextBackoff(b) == IF b * 2 < MAX_BACKOFF THEN b * 2 ELSE MAX_BACKOFF

\* The outcome of one pass of the while loop (lines 40-88) for a response of
\* the service: "return" the insight, "raise" an exception, or "retry".
AttemptOutcome(resp, retry, p) ==
    IF resp = "ok" THEN [op |-> "return", text |-> InsightFor(p)]
    ELSE IF resp = "no_content"
    THEN [op |-> "raise",
          text |-> <<"Failed to get insights from OpenAI due to an unexpected error: ",
                     "Invalid response structure from OpenAI.">>]
    ELSE IF IsAPIError(resp)
    THEN IF retry = MAX_RETRIES
         THEN [op |-> "raise", text |-> <<"<APIError>">>]
         ELSE [op |-> "retry", text |-> <<>>]
    ELSE [op |-> "raise",
          text |-> <<"Failed to get insights from OpenAI due to an unexpected error: ",
                     "<error>">>]

\* ---------------------------------------------------------- lambda_handler

\* entry_prefix = f"Record {i+1}: "
EntryPrefix(i) ==
    <<"R", "e", "c", "o", "r", "d", " ">> \o DecimalDigits(i + 1) \o <<":", " ">>

RECURSIVE Join(_)
\* "\n".join(texts)
Join(texts) ==
    IF texts = <<>> THEN <<>>
    ELSE IF Len(texts) = 1 THEN texts[1]
    ELSE texts[1] \o <<"\n">> \o Join(Tail(texts))

\* The prompt of per_record mode (line 98).
RecordPrompt(text) ==
    <<"Provide a concise analysis or key insight for the following data point: \"">>
        \o text \o <<"\"">>

\* The prompt of summarize_all mode (lines 150-155).
SummaryPrompt(combined) == <<"<summary instructions> Data Records:\n">> \o combined

\* An assignment that stops before the last record.
SetAllButLast(data, k, v) ==
    [j \in 1..Len(data) |->
        IF j < Len(data) THEN Obj(SetField(data[j].rec, k, v)) ELSE data[j]]

\* for record in augmented_data: record[key] = value
SetAll(data, k, v) == [j \in 1..Len(data) |-> Obj(SetField(data[j].rec, k, v))]

\* An assignment that reaches every record instead of the one at index.
SetAtEvery(data, index, k, v) == SetAll(data, k, v)

\* augmented_data[index][key] = value, index counted from 0.
SetAt(data, index, k, v) ==
    [j \in 1..Len(data) |->
        IF j = index + 1 THEN Obj(SetField(data[j].rec, k, v)) ELSE data[j]]

\* The CSV text: empty is TRUE for the empty string; otherwise a header line
\* and one row of cells per record.
CsvText(header, rows) == [fmt |-> "csv", empty |-> FALSE, header |-> header, rows |-> rows, data |-> <<>>]

EmptyCsv == [fmt |-> "csv", empty |-> TRUE, header |-> <<>>, rows |-> <<>>, data |-> <<>>]

JsonText(data) == [fmt |-> "json", empty |-> FALSE, header |-> <<>>, rows |-> <<>>, data |-> data]

ParquetTable(data) == [fmt |-> "parquet", empty |-> FALSE, header |-> <<>>, rows |-> <<>>, data |-> data]

NoBody == [fmt |-> "none", empty |-> TRUE, header |-> <<>>, rows |-> <<>>, data |-> <<>>]

\* The text csv.writer writes for a cell: None is empty, a str is itself.
RenderCell(v) == IF v.t = "none" THEN <<>> ELSE v.s

\* csv.DictWriter.writerows with extrasaction='ignore' and restval '': the
\* cells of each record under the header's keys, empty where it lacks the key.
CsvRowsOf(header, data) ==
    [i \in 1..Len(data) |->
        [j \in 1..Len(header) |->
            IF HasKey(data[i].rec, header[j])
            THEN RenderCell(Get(data[i].rec, header[j]))
            ELSE <<>>]]

\* The csv branch of lambda_handler (lines 181-191): the header is the keys
\* of the first record.
HandlerCsv(data) ==
    IF data = <<>> THEN EmptyCsv
    ELSE LET headers == Keys(data[1].rec)
         IN  CsvText(headers, CsvRowsOf(headers, data))

\* A remaining space that forgets the prefix.
RemainingSpaceWithPrefix(budget, entry_prefix) == budget

\* Line 134, reached only with an empty list:
\* MAX_CHARS_FOR_SUMMARY_PROMPT - (len(entry_prefix) + 0).
RemainingSpaceForText(budget, entry_prefix) == budget - (Len(entry_prefix) + 0)

\* A packing loop that goes on after an entry that does not fit.
PackEntryNoBreak(list, count, i, text, budget) ==
    IF ~Truthy(text) THEN [list |-> list, count |-> count, brk |-> FALSE]
    ELSE LET entry_prefix == EntryPrefix(i)
             full_entry == entry_prefix \o text.s
             chars_to_add == Len(full_entry) + (IF list # <<>> THEN 1 ELSE 0)
         IN  IF count + chars_to_add <= budget
             THEN [list |-> Append(list, full_entry),
                   count |-> count + chars_to_add, brk |-> FALSE]
             ELSE [list |-> list, count |-> count, brk |-> list = <<>>]

\* One pass of the packing loop (lines 117-142) for record i (from 0) with
\* text `text`: the new list and count, and whether the loop breaks.
PackEntry(list, count, i, text, budget) ==
    IF ~Truthy(text) THEN [list |-> list, count |-> count, brk |-> FALSE]
    ELSE LET entry_prefix == EntryPrefix(i)
             full_entry == entry_prefix \o text.s
             chars_to_add == Len(full_entry) + (IF list # <<>> THEN 1 ELSE 0)
         IN  IF count + chars_to_add <= budget
             THEN [list |-> Append(list, full_entry),
                   count |-> count + chars_to_add, brk |-> FALSE]
             ELSE IF list = <<>>
             THEN LET remaining_space_for_text ==
                          RemainingSpaceForText(budget, entry_prefix)
                  IN  IF remaining_space_for_text > 0
                      THEN [list |-> <<entry_prefix
                                        \o PySlice(text.s, remaining_space_for_text)>>,
                            count |-> count + Len(entry_prefix)
                                       + remaining_space_for_text + 1,
                            brk |-> TRUE]
                      ELSE [list |-> list, count |-> count, brk |-> TRUE]
             ELSE [list |-> list, count |-> count, brk |-> TRUE]

\* combined_text (lines 145-147): the joined entries, cut to the budget.
CombinedText(list, budget) ==
    LET joined == Join(list)
    IN  IF Len(joined) > budget THEN PySlice(joined, budget) ELSE joined

\* ------------------------------------------------------------------- state

VARIABLES
    OPENAI_API_KEY,               \* TRUE when the variable is set
    OUTPUT_BUCKET_NAME,           \* TRUE when the variable is set
    OUTPUT_FORMAT,
    PROMPT_STRATEGY,
    PYARROW_AVAILABLE,
    MAX_CHARS_FOR_SUMMARY_PROMPT,
    MAX_RECORDS_FOR_SUMMARY,
    text_column_name,             \* the value of TEXT_COLUMN_NAME
    object_key,                   \* the key of the uploaded object
    file_content_bytes,           \* the uploaded object
    file_type,                    \* the extension of object_key, lower-cased
    pc,                           \* the position in lambda_handler
    original_data,
    augmented_data,
    index,                        \* the loop index of either strategy
    prompt,                       \* the prompt of the current insight call
    texts_for_summary_list,
    current_char_count,
    combined_text,
    current_retry,
    backoff_period,
    attempts,                     \* service calls made by the current call
    last_response,                \* the service's answer to the last attempt
    slept,                        \* seconds slept by the current call
    call_log,                     \* per record: the outcome of its insight call
    output_body,
    s3_output,                    \* the object put to the output bucket
    serialized,                   \* what serialize_output returned or raised
    response,                     \* what lambda_handler returns
    resolved_text,                \* what get_text_from_record returned
    table_name,                   \* save_to_dynamodb's table_name, "" if unset
    table_items                   \* the items put to the DynamoDB table

config == <<OPENAI_API_KEY, OUTPUT_BUCKET_NAME, OUTPUT_FORMAT, PROMPT_STRATEGY,
            PYARROW_AVAILABLE, MAX_CHARS_FOR_SUMMARY_PROMPT,
            MAX_RECORDS_FOR_SUMMARY, text_column_name>>

input == <<file_content_bytes, file_type, object_key>>

packer == <<texts_for_summary_list, current_char_count, combined_text>>

call == <<current_retry, backoff_period, attempts, last_response, slept>>

aux == <<resolved_text, table_name, table_items>>

vars == <<config, input, pc, original_data, augmented_data, index, prompt,
          packer, call, call_log, output_body, s3_output, serialized, response,
          aux>>

\* get_text_from_record(record, index): the text to analyze, or None.
GetTextFromRecord(rec) == ResolveText(rec, text_column_name)

\* ------------------------------------------------------------------ inputs

IdField == Field("id", Num(<<"7">>))

\* The record shapes of the datasets: a long and a short preferred text, a
\* text under another key only, and an empty preferred text.
RecordPool ==
    { <<IdField, Field("text_column", Str(Text(MaxTextLen)))>>,
      <<IdField, Field("text_column", Str(Text(1)))>>,
      <<IdField, Field("notes", Str(Text(1)))>>,
      <<IdField, Field("text_column", Str(<<>>))>> }

Datasets ==
    UNION { [1..n -> {Obj(r) : r \in RecordPool}] : n \in 1..MaxRecords }

\* A .json file holding the dataset as one array.
JsonFileOf(ds) == TextBytes(<<JsonLine(JList(ds))>>)

R1 == <<IdField, Field("text_column", Str(Text(1)))>>

R2 == <<IdField, Field("notes", Str(Text(1)))>>

\* A record that already has the insight key.
R3 == <<Field("ai_insight", Str(Text(1))), IdField>>

HeaderRow == RowLine(<<Str(<<"id">>), Str(<<"text_column">>)>>)

\* Files of every format, well-formed and not.
OtherFiles ==
    { <<EmptyBytes, "csv">>,
      <<EmptyBytes, "json">>,
      <<EmptyBytes, "txt">>,
      <<EmptyBytes, "parquet">>,
      <<EmptyBytes, "xml">>,
      <<BadUtf8Bytes, "csv">>,
      <<BadUtf8Bytes, "json">>,
      <<BadUtf8Bytes, "txt">>,
      <<TextBytes(<<BadLine>>), "json">>,
      <<TextBytes(<<JsonLine(JList(<<Obj(R1), Scalar>>))>>), "json">>,
      <<TextBytes(<<JsonLine(JObj(R1))>>), "json">>,
      <<TextBytes(<<JsonLine(JList(<<Obj(R3), Obj(R2)>>))>>), "json">>,
      <<TextBytes(<<JsonLine(JObj(R1)), JsonLine(JObj(R2))>>), "json">>,
      <<TextBytes(<<JsonLine(JScalar)>>), "json">>,
      <<TextBytes(<<HeaderRow, RowLine(<<Str(<<"1">>), Str(Text(1))>>),
                    BlankLine, RowLine(<<Str(<<"2">>)>>)>>), "csv">>,
      <<TextBytes(<<HeaderRow, BadLine>>), "csv">>,
      <<TextBytes(<<TextLine(Text(1)), BlankLine, TextLine(Text(2))>>), "txt">>,
      <<ParquetBytes(<<Obj(R1), Obj(R2)>>), "parquet">>,
      <<TextBytes(<<BadLine>>), "parquet">>,
      <<TextBytes(<<TextLine(Text(1))>>), "xml">> }

PrefixLen == Len(EntryPrefix(0))

\* Budgets around the sizes of zero, one, two and three packed entries.
Budgets ==
    {0, PrefixLen, PrefixLen + 1, PrefixLen + MaxTextLen,
     2 * PrefixLen + 2, 2 * PrefixLen + 3, 2 * PrefixLen + 1 + 2 * MaxTextLen,
     3 * PrefixLen + 2 + 3 * MaxTextLen}

\* The key of an uploaded object with the extension file_type.
KeyFor(ext) == <<"uploads", "/", "input", ".", ext>>

NoResponse == [statusCode |-> 0, body |-> "none"]

NotSerialized == [body |-> NoBody, content_type |-> "none", exc |-> "none"]

\* The state before lambda_handler runs, but for the configuration and input.
FreshState ==
    /\ index = 0
    /\ prompt = <<>>
    /\ texts_for_summary_list = <<>>
    /\ current_char_count = 0
    /\ combined_text = <<>>
    /\ current_retry = 0
    /\ backoff_period = INITIAL_BACKOFF
    /\ attempts = 0
    /\ last_response = "none"
    /\ slept = 0
    /\ call_log = <<>>
    /\ output_body = NoBody
    /\ s3_output = NoBody
    /\ serialized = NotSerialized
    /\ response = NoResponse
    /\ resolved_text = None
    /\ table_items = <<>>

Fresh ==
    FreshState /\ original_data = <<>> /\ augmented_data = <<>> /\ table_name = ""

\* A valid configuration in per_record mode: the files of every format with
\* every output format, the dataset files with the two text formats.
InitPerRecord ==
    /\ OPENAI_API_KEY = TRUE /\ OUTPUT_BUCKET_NAME = TRUE
    /\ PYARROW_AVAILABLE = TRUE
    /\ PROMPT_STRATEGY = "per_record"
    /\ MAX_CHARS_FOR_SUMMARY_PROMPT = 15000
    /\ MAX_RECORDS_FOR_SUMMARY = 100
    /\ text_column_name = TEXT_COLUMN_NAME
    /\ \/ /\ OUTPUT_FORMAT \in {"json", "csv", "parquet"}
          /\ \E f \in OtherFiles :
                file_content_bytes = f[1] /\ file_type = f[2]
       \/ /\ OUTPUT_FORMAT \in {"json", "csv"}
          /\ file_content_bytes \in {JsonFileOf(ds) : ds \in Datasets}
          /\ file_type = "json"
    /\ object_key = KeyFor(file_type)

\* A valid configuration in summarize_all mode, every budget.
InitSummarizeAll ==
    /\ OPENAI_API_KEY = TRUE /\ OUTPUT_BUCKET_NAME = TRUE
    /\ PYARROW_AVAILABLE = TRUE
    /\ PROMPT_STRATEGY = "summarize_all"
    /\ OUTPUT_FORMAT \in {"json", "csv"}
    /\ MAX_CHARS_FOR_SUMMARY_PROMPT \in Budgets
    /\ MAX_RECORDS_FOR_SUMMARY \in {MaxRecords - 1, 100}
    /\ text_column_name = TEXT_COLUMN_NAME
    /\ file_content_bytes \in {JsonFileOf(ds) : ds \in Datasets} \cup {EmptyBytes}
    /\ file_type = "json"
    /\ object_key = KeyFor(file_type)

\* The configurations lambda_handler rejects or may reject.
InitOtherConfig ==
    /\ OPENAI_API_KEY \in BOOLEAN /\ OUTPUT_BUCKET_NAME \in BOOLEAN
    /\ PYARROW_AVAILABLE \in BOOLEAN
    /\ PROMPT_STRATEGY \in {"per_record", "summarize_all", "other"}
    /\ OUTPUT_FORMAT \in {"json", "csv", "parquet", "xml"}
    /\ MAX_CHARS_FOR_SUMMARY_PROMPT = 15000
    /\ MAX_RECORDS_FOR_SUMMARY = 100
    /\ text_column_name = TEXT_COLUMN_NAME
    /\ file_content_bytes = JsonFileOf(<<Obj(R1), Obj(R2)>>) /\ file_type = "json"
    /\ object_key = KeyFor(file_type)

Init ==
    /\ pc = "start"
    /\ Fresh
    /\ (InitPerRecord \/ InitSummarizeAll \/ InitOtherConfig)

\* ----------------------------------------------------------------- actions

Return(status, body) ==
    /\ response' = [statusCode |-> status, body |-> body]
    /\ pc' = "done"

\* Lines 68-76: the configuration checks.
ValidateConfig ==
    /\ pc = "start"
    /\ IF ~OPENAI_API_KEY \/ ~OUTPUT_BUCKET_NAME
       THEN Return(500, "OpenAI API key not configured.")
       ELSE IF OUTPUT_FORMAT \notin {"json", "csv", "parquet"} \/ ~PYARROW_AVAILABLE
       THEN Return(400, "Unsupported OUTPUT_FORMAT")
       ELSE IF PROMPT_STRATEGY \notin {"per_record", "summarize_all"}
       THEN Return(400, "Unsupported PROMPT_STRATEGY")
       ELSE pc' = "read" /\ UNCHANGED response
    /\ UNCHANGED <<aux, serialized, config, input, original_data, augmented_data, index, prompt,
                   packer, call, call_log, output_body, s3_output>>

\* A test for an empty dataset that never answers yes.
NoDataNever(data) == FALSE

\* Line 87: if not original_data.
NoData(data) == data = <<>>

\* Lines 79-92: read the object, parse it, copy the records.  get_object may
\* fail; copying an element that is no mapping raises.  Both are caught by
\* the handler's outer except (lines 231-236).
ReadInput ==
    /\ pc = "read"
    /\ \E s3_ok \in BOOLEAN :
        IF ~s3_ok
        THEN /\ Return(500, "An unexpected error occurred")
             /\ UNCHANGED <<original_data, augmented_data, call_log>>
        ELSE LET data == ProcessData(file_content_bytes, file_type, PYARROW_AVAILABLE)
             IN  /\ original_data' = data
                 /\ IF NoData(data)
                    THEN /\ Return(200, "No data to process.")
                         /\ UNCHANGED <<augmented_data, call_log>>
                    ELSE IF \E i \in 1..Len(data) : data[i].t # "obj"
                    THEN /\ Return(500, "An unexpected error occurred")
                         /\ UNCHANGED <<augmented_data, call_log>>
                    ELSE /\ augmented_data' = data
                         /\ call_log' = [i \in 1..Len(data) |-> "none"]
                         /\ pc' = PROMPT_STRATEGY
                         /\ UNCHANGED response
    /\ UNCHANGED <<aux, serialized, config, input, index, prompt, packer, call, output_body,
                   s3_output>>

\* Lines 95-109: one pass of the per_record loop up to the insight call.
PerRecord ==
    /\ pc = "per_record"
    /\ IF index >= Len(original_data)
       THEN /\ pc' = "serialize"
            /\ UNCHANGED <<augmented_data, index, prompt, call>>
       ELSE LET text_to_analyze == GetTextFromRecord(original_data[index + 1].rec)
            IN  IF Truthy(text_to_analyze)
                THEN /\ prompt' = RecordPrompt(text_to_analyze.s)
                     /\ current_retry' = 0
                     /\ backoff_period' = INITIAL_BACKOFF
                     /\ attempts' = 0
                     /\ last_response' = "none"
                     /\ slept' = 0
                     /\ pc' = "call"
                     /\ UNCHANGED <<augmented_data, index>>
                ELSE /\ augmented_data' =
                            SetAt(augmented_data, index, "ai_insight",
                                  Str(<<"N/A - No suitable text field found">>))
                     /\ index' = index + 1
                     /\ pc' = "per_record"
                     /\ UNCHANGED <<prompt, call>>
    /\ UNCHANGED <<aux, serialized, config, input, original_data, packer, call_log, output_body,
                   s3_output, response>>

\* What the caller does with the insight (lines 101, 161-162).
OnInsight(text) ==
    IF PROMPT_STRATEGY = "per_record"
    THEN /\ augmented_data' = SetAt(augmented_data, index, "ai_insight", Str(text))
         /\ call_log' = [call_log EXCEPT ![index + 1] = "ok"]
         /\ index' = index + 1
         /\ pc' = "per_record"
    ELSE /\ augmented_data' =
                SetAll(augmented_data, "ai_overall_summary_insight", Str(text))
         /\ pc' = "serialize"
         /\ UNCHANGED <<call_log, index>>

\* What the caller does with the exception (lines 102-105, 163-166).
OnException(msg) ==
    IF PROMPT_STRATEGY = "per_record"
    THEN /\ augmented_data' =
                SetAt(augmented_data, index, "ai_insight", Str(<<"Error: ">> \o msg))
         /\ call_log' = [call_log EXCEPT ![index + 1] = "failed"]
         /\ index' = index + 1
         /\ pc' = "per_record"
    ELSE /\ augmented_data' =
                SetAll(augmented_data, "ai_overall_summary_insight",
                       Str(<<"Error generating summary: ">> \o msg))
         /\ pc' = "serialize"
         /\ UNCHANGED <<call_log, index>>

\* get_openai_insights, lines 40-88: one attempt and what follows it.
Attempt ==
    /\ pc = "call"
    /\ current_retry <= MAX_RETRIES
    /\ \E resp \in Responses :
        LET out == AttemptOutcome(resp, current_retry, prompt)
        IN  /\ attempts' = attempts + 1
            /\ last_response' = resp
            /\ IF out.op = "return"
               THEN OnInsight(out.text) /\ UNCHANGED <<current_retry, backoff_period, slept>>
               ELSE IF out.op = "raise"
               THEN OnException(out.text) /\ UNCHANGED <<current_retry, backoff_period, slept>>
               ELSE /\ slept' = slept + backoff_period
                    /\ backoff_period' = NextBackoff(backoff_period)
                    /\ current_retry' = NextRetry(current_retry)
                    /\ UNCHANGED <<augmented_data, call_log, index, pc>>
    /\ UNCHANGED <<aux, serialized, config, input, original_data, prompt, packer, output_body,
                   s3_output, response>>

\* Lines 116-142: one pass of the summarize_all packing loop over
\* original_data[:MAX_RECORDS_FOR_SUMMARY].
Pack ==
    /\ pc = "summarize_all"
    /\ LET eligible == PySlice(original_data, MAX_RECORDS_FOR_SUMMARY)
       IN  IF index >= Len(eligible)
           THEN pc' = "combine" /\ UNCHANGED <<index, packer>>
           ELSE LET text == GetTextFromRecord(eligible[index + 1].rec)
                    step == PackEntry(texts_for_summary_list, current_char_count,
                                      index, text, MAX_CHARS_FOR_SUMMARY_PROMPT)
                IN  /\ texts_for_summary_list' = step.list
                    /\ current_char_count' = step.count
                    /\ index' = index + 1
                    /\ pc' = IF step.brk THEN "combine" ELSE "summarize_all"
                    /\ UNCHANGED combined_text
    /\ UNCHANGED <<aux, serialized, config, input, original_data, augmented_data, prompt, call,
                   call_log, output_body, s3_output, response>>

\* Lines 144-170: build the summary prompt and call the service, or mark
\* every record when nothing was packed.
Combine ==
    /\ pc = "combine"
    /\ IF texts_for_summary_list # <<>>
       THEN /\ combined_text' =
                   CombinedText(texts_for_summary_list, MAX_CHARS_FOR_SUMMARY_PROMPT)
            /\ prompt' = SummaryPrompt(combined_text')
            /\ current_retry' = 0
            /\ backoff_period' = INITIAL_BACKOFF
            /\ attempts' = 0
            /\ last_response' = "none"
            /\ slept' = 0
            /\ pc' = "call"
            /\ UNCHANGED augmented_data
       ELSE /\ augmented_data' =
                   SetAll(augmented_data, "ai_overall_summary_insight",
                          Str(<<"N/A - No text to summarize">>))
            /\ pc' = "serialize"
            /\ UNCHANGED <<combined_text, prompt, call>>
    /\ UNCHANGED <<aux, serialized, config, input, original_data, index, texts_for_summary_list,
                   current_char_count, call_log, output_body, s3_output, response>>

\* Lines 173-204: the output body by format.  The Parquet conversion may
\* fail, which returns 500.
Serialize ==
    /\ pc = "serialize"
    /\ IF OUTPUT_FORMAT = "json"
       THEN /\ output_body' = JsonText(augmented_data)
            /\ pc' = "put"
            /\ UNCHANGED response
       ELSE IF OUTPUT_FORMAT = "csv"
       THEN /\ output_body' = HandlerCsv(augmented_data)
            /\ pc' = "put"
            /\ UNCHANGED response
       ELSE \E converted \in BOOLEAN :
              IF converted
              THEN /\ output_body' = ParquetTable(augmented_data)
                   /\ pc' = "put"
                   /\ UNCHANGED response
              ELSE /\ Return(500, "Failed to prepare Parquet output")
                   /\ UNCHANGED output_body
    /\ UNCHANGED <<aux, serialized, config, input, original_data, augmented_data, index, prompt,
                   packer, call, call_log, s3_output>>

\* Lines 206-229: put the object; put_object may fail.
Put ==
    /\ pc = "put"
    /\ \E s3_ok \in BOOLEAN :
        IF s3_ok
        THEN /\ s3_output' = output_body
             /\ Return(200, "Dataset processed and augmented successfully.")
        ELSE /\ Return(500, "Failed to save augmented dataset")
             /\ UNCHANGED s3_output
    /\ UNCHANGED <<aux, serialized, config, input, original_data, augmented_data, index, prompt,
                   packer, call, call_log, output_body>>

Next ==
    \/ ValidateConfig
    \/ ReadInput
    \/ PerRecord
    \/ Attempt
    \/ Pack
    \/ Combine
    \/ Serialize
    \/ Put

Spec == Init /\ [][Next]_vars

\* ------------------------------------------------------------ process_data
\* process_data on its own, for every file content, type and codec
\* availability.

\* Longest file, in lines.
MaxLines == 2

LinePool ==
    { BlankLine, BadLine,
      JsonLine(JObj(R1)), JsonLine(JObj(R2)), JsonLine(JScalar),
      JsonLine(JList(<<Obj(R1), Obj(R2)>>)), JsonLine(JList(<<Obj(R1), Scalar>>)),
      HeaderRow, RowLine(<<Str(Text(1))>>) }

ParseInputs ==
    {EmptyBytes, BadUtf8Bytes, ParquetBytes(<<Obj(R1), Obj(R2)>>)}
        \cup {TextBytes(ls) : ls \in UNION {[1..n -> LinePool] : n \in 1..MaxLines}}

InitParse ==
    /\ pc = "process_data"
    /\ Fresh
    /\ OPENAI_API_KEY = TRUE /\ OUTPUT_BUCKET_NAME = TRUE
    /\ PROMPT_STRATEGY = "per_record"
    /\ OUTPUT_FORMAT = "json"
    /\ MAX_CHARS_FOR_SUMMARY_PROMPT = 15000
    /\ MAX_RECORDS_FOR_SUMMARY = 100
    /\ text_column_name = TEXT_COLUMN_NAME
    /\ PYARROW_AVAILABLE \in BOOLEAN
    /\ file_content_bytes \in ParseInputs
    /\ file_type \in {"csv", "json", "txt", "parquet", "xml"}
    /\ object_key = KeyFor(file_type)

\* A call of process_data(file_content_bytes, file_key).
ProcessDataCall ==
    /\ pc = "process_data"
    /\ original_data' = ProcessData(file_content_bytes, file_type, PYARROW_AVAILABLE)
    /\ pc' = "parsed"
    /\ UNCHANGED <<aux, serialized, config, input, augmented_data, index, prompt,
                   packer, call, call_log, output_body, s3_output, response>>

NextParse == ProcessDataCall

SpecParse == InitParse /\ [][NextParse]_vars

\* -------------------------------------------------------- serialize_output

\* The keys of the datasets, in lexicographic (code point) order.
KeyOrder ==
    <<"ai_insight", "ai_overall_summary_insight", "id", "line_number", "notes",
      "text_column", "text_content">>

Rank(k) == CHOOSE i \in 1..Len(KeyOrder) : KeyOrder[i] = k

RECURSIVE SortKeys(_)
\* sorted(list(all_keys))
SortKeys(S) ==
    IF S = {} THEN <<>>
    ELSE LET least == CHOOSE k \in S : \A o \in S : Rank(k) <= Rank(o)
         IN  <<least>> \o SortKeys(S \ {least})

\* all_keys (lines 48-53): the keys of every dict of data.
AllKeys(data) ==
    UNION {KeySet(data[i].rec) : i \in {j \in 1..Len(data) : data[j].t = "obj"}}

\* A header taken from the first record alone.
CsvHeadersOfFirst(data) == Keys(data[1].rec)

\* headers (line 59)
CsvHeaders(data) == SortKeys(AllKeys(data))

\* The csv branch of serialize_output (lines 43-71).
SerializeCsv(data) ==
    IF data = <<>>
    THEN [body |-> EmptyCsv, content_type |-> "text/csv", exc |-> "none"]
    ELSE IF AllKeys(data) = {}
    THEN [body |-> EmptyCsv, content_type |-> "text/csv", exc |-> "none"]
    ELSE IF \E i \in 1..Len(data) : data[i].t # "obj"
    THEN [body |-> NoBody, content_type |-> "none", exc |-> "ValueError"]
    ELSE LET headers == CsvHeaders(data)
         IN  [body |-> CsvText(headers, CsvRowsOf(headers, data)),
              content_type |-> "text/csv", exc |-> "none"]

\* serialize_output(data, fmt, pyarrow_available, pa_module, pq_module);
\* converted tells whether the Parquet conversion succeeds.
SerializeOutput(data, fmt, pyarrow_available, converted) ==
    IF fmt = "json"
    THEN [body |-> JsonText(data), content_type |-> "application/json", exc |-> "none"]
    ELSE IF fmt = "csv" THEN SerializeCsv(data)
    ELSE IF fmt = "parquet"
    THEN IF ~pyarrow_available
         THEN [body |-> NoBody, content_type |-> "none", exc |-> "ImportError"]
         ELSE IF data = <<>>
         THEN [body |-> [ParquetTable(<<>>) EXCEPT !.empty = TRUE],
               content_type |-> "application/vnd.apache.parquet", exc |-> "none"]
         ELSE IF converted
         THEN [body |-> ParquetTable(data),
               content_type |-> "application/vnd.apache.parquet", exc |-> "none"]
         ELSE [body |-> NoBody, content_type |-> "none", exc |-> "ValueError"]
    ELSE [body |-> NoBody, content_type |-> "none", exc |-> "ValueError"]

\* The record shapes given to serialize_output: different key sets, keys out
\* of order, a None value, an empty dict.
SerializePool ==
    { <<>>,
      <<Field("text_column", Str(Text(1))), IdField>>,
      <<Field("notes", None), Field("ai_insight", Str(Text(2)))>>,
      <<IdField, Field("notes", Str(Text(1)))>> }

SerializeInputs ==
    {<<>>, <<Obj(R1), Scalar>>}
        \cup UNION { [1..n -> {Obj(r) : r \in SerializePool}] : n \in 1..MaxRecords }

InitSerialize ==
    /\ pc = "serialize_output"
    /\ FreshState
    /\ OPENAI_API_KEY = TRUE /\ OUTPUT_BUCKET_NAME = TRUE
    /\ PROMPT_STRATEGY = "per_record"
    /\ MAX_CHARS_FOR_SUMMARY_PROMPT = 15000
    /\ MAX_RECORDS_FOR_SUMMARY = 100
    /\ text_column_name = TEXT_COLUMN_NAME
    /\ file_content_bytes = EmptyBytes /\ file_type = "json"
    /\ PYARROW_AVAILABLE \in BOOLEAN
    /\ OUTPUT_FORMAT \in {"json", "csv", "parquet", "xml"}
    /\ original_data = <<>>
    /\ table_name = ""
    /\ augmented_data \in SerializeInputs
    /\ object_key = KeyFor(file_type)

\* A call of serialize_output(augmented_data, OUTPUT_FORMAT, ...).
SerializeOutputCall ==
    /\ pc = "serialize_output"
    /\ \E converted \in BOOLEAN :
          serialized' = SerializeOutput(augmented_data, OUTPUT_FORMAT,
                                        PYARROW_AVAILABLE, converted)
    /\ pc' = "serialized"
    /\ UNCHANGED <<aux, config, input, original_data, augmented_data, index,
                   prompt, packer, call, call_log, output_body, s3_output,
                   response>>

NextSerialize == SerializeOutputCall

SpecSerialize == InitSerialize /\ [][NextSerialize]_vars

\* ------------------------------------------------- get_text_from_record

MaxFields == 3

ResolveKeys == {"foo", "notes", "text_content", "text_column"}

\* The text a field of each name holds when it holds text.
TextOf(k) == IF k = "notes" THEN <<"h", "e", "l", "l", "o">> ELSE <<k>>

\* A number, JSON null, the empty string or the field's text.
ValuesOf(k) == {Num(<<"1">>), None, Str(<<>>), Str(TextOf(k))}

\* Records of up to MaxFields fields with distinct keys, in every order.
KeySeqs ==
    UNION { { ks \in [1..n -> ResolveKeys] :
                \A a, b \in 1..n : a # b => ks[a] # ks[b] } : n \in 0..MaxFields }

RecordsOver(ks) ==
    { [i \in 1..Len(ks) |-> Field(ks[i], vs[i])] :
        vs \in { v \in [1..Len(ks) -> UNION {ValuesOf(k) : k \in ResolveKeys}] :
                   \A i \in 1..Len(ks) : v[i] \in ValuesOf(ks[i]) } }

ResolvePool == UNION { RecordsOver(ks) : ks \in KeySeqs }

\* The record is original_data[0]; TEXT_COLUMN_NAME is the default, a name
\* of another field, or a name no record has.
InitResolve ==
    /\ pc = "get_text_from_record"
    /\ FreshState
    /\ OPENAI_API_KEY = TRUE /\ OUTPUT_BUCKET_NAME = TRUE
    /\ PYARROW_AVAILABLE = TRUE
    /\ PROMPT_STRATEGY = "per_record"
    /\ OUTPUT_FORMAT = "json"
    /\ MAX_CHARS_FOR_SUMMARY_PROMPT = 15000
    /\ MAX_RECORDS_FOR_SUMMARY = 100
    /\ text_column_name \in {TEXT_COLUMN_NAME, "notes", "body"}
    /\ file_content_bytes = EmptyBytes /\ file_type = "json"
    /\ object_key = KeyFor(file_type)
    /\ \E rec \in ResolvePool : original_data = <<Obj(rec)>>
    /\ augmented_data = original_data
    /\ table_name = ""

\* A call of get_text_from_record(original_data[0], 0).
GetTextCall ==
    /\ pc = "get_text_from_record"
    /\ resolved_text' = GetTextFromRecord(original_data[index + 1].rec)
    /\ pc' = "resolved"
    /\ UNCHANGED <<table_name, table_items, serialized, config, input,
                   original_data, augmented_data, index, prompt, packer, call, call_log,
                   output_body, s3_output, response>>

NextResolve == GetTextCall

SpecResolve == InitResolve /\ [][NextResolve]_vars

\* ------------------------------------------------------- save_to_dynamodb

MAX_STRING_FIELD_BYTES_FOR_TRUNCATION == 300 * 1024

\* len(value.encode('utf-8')) for a text of one-byte characters.
Utf8Len(s) == Len(s)

\* object_key.replace('/', '_')
ReplaceSlash(key) == [j \in 1..Len(key) |-> IF key[j] = "/" THEN "_" ELSE key[j]]

\* item_id = f"{object_key.replace('/', '_')}_{i}"
ItemId(key, i) == ReplaceSlash(key) \o <<"_">> \o DecimalDigits(i)

\* datetime.utcnow().isoformat() + "Z", read once per call (line 31).
Timestamp == Str(<<"<utcnow>", "Z">>)

RECURSIVE AddFields(_, _)
\* for key, value in record.items() (lines 52-65): empty strings and None
\* are skipped, large strings cut, every other value assigned under its key.
AddFields(dynamodb_item, rec) ==
    IF rec = <<>> THEN dynamodb_item
    ELSE LET key == rec[1].k
             value == rec[1].v
         IN  IF IsStr(value) /\ value.s = <<>>
             THEN AddFields(dynamodb_item, Tail(rec))
             ELSE IF IsStr(value)
                     /\ Utf8Len(value.s) > MAX_STRING_FIELD_BYTES_FOR_TRUNCATION
             THEN AddFields(SetField(dynamodb_item, key,
                                     Str(PySlice(value.s, 100000)
                                         \o <<"... (truncated)">>)),
                            Tail(rec))
             ELSE IF value = None
             THEN AddFields(dynamodb_item, Tail(rec))
             ELSE AddFields(SetField(dynamodb_item, key, value), Tail(rec))

\* The item built for record i (lines 42-65).
DynamoItem(rec, key, i) ==
    AddFields(<<Field("id", Str(ItemId(key, i))),
                Field("timestamp", Timestamp),
                Field("original_file_key", Str(key))>>, rec)

DynamoRecords ==
    { <<Field("text", Str(<<"a">>))>>,
      <<Field("id", Num(<<"7">>)), Field("text", Str(<<"a">>))>>,
      <<Field("id", Str(<<>>)), Field("note", None)>>,
      <<Field("timestamp", Str(<<"2020">>)), Field("original_file_key", Str(<<"k">>))>>,
      <<Field("text", Str(<<"b">>)), Field("tags", List(<<"x">>))>> }

DynamoData ==
    UNION { [1..n -> {Obj(r) : r \in DynamoRecords} \cup {Scalar}] : n \in 0..MaxRecords }

ObjectKeys ==
    { <<"uploads", "/", "input", ".", "json">>,
      <<"a", "/", "b", "/", "c", ".", "csv">>,
      <<"input", ".", "txt">> }

\* save_to_dynamodb(augmented_data, table_name, object_key).
InitDynamo ==
    /\ pc = "save_to_dynamodb"
    /\ FreshState
    /\ OPENAI_API_KEY = TRUE /\ OUTPUT_BUCKET_NAME = TRUE
    /\ PYARROW_AVAILABLE = TRUE
    /\ PROMPT_STRATEGY = "per_record"
    /\ OUTPUT_FORMAT = "json"
    /\ MAX_CHARS_FOR_SUMMARY_PROMPT = 15000
    /\ MAX_RECORDS_FOR_SUMMARY = 100
    /\ text_column_name = TEXT_COLUMN_NAME
    /\ file_content_bytes = EmptyBytes
    /\ object_key \in ObjectKeys
    /\ file_type = object_key[Len(object_key)]
    /\ original_data = <<>>
    /\ augmented_data \in DynamoData
    /\ table_name \in {"", "augmented"}

\* Lines 22-35: nothing is done without a table name.
SaveStart ==
    /\ pc = "save_to_dynamodb"
    /\ pc' = IF table_name = "" THEN "saved" ELSE "batch"
    /\ UNCHANGED <<aux, serialized, config, input, original_data, augmented_data,
                   index, prompt, packer, call, call_log, output_body, s3_output,
                   response>>

\* Lines 39-73: one pass of the loop.  A record that is no mapping raises at
\* record.items(), and put_item may raise; the inner except skips the record.
PutRecord ==
    /\ pc = "batch"
    /\ IF index >= Len(augmented_data)
       THEN pc' = "saved" /\ UNCHANGED <<index, table_items>>
       ELSE /\ \E put_ok \in BOOLEAN :
                 IF augmented_data[index + 1].t = "obj" /\ put_ok
                 THEN table_items' =
                        Append(table_items,
                               [i |-> index,
                                item |-> DynamoItem(augmented_data[index + 1].rec,
                                                    object_key, index)])
                 ELSE UNCHANGED table_items
            /\ index' = index + 1
            /\ pc' = "batch"
    /\ UNCHANGED <<resolved_text, table_name, serialized, config, input,
                   original_data, augmented_data, prompt, packer, call, call_log,
                   output_body, s3_output, response>>

\* Lines 75-78: an error of the batch writer ends the loop.
BatchError ==
    /\ pc = "batch"
    /\ pc' = "saved"
    /\ UNCHANGED <<aux, serialized, config, input, original_data, augmented_data,
                   index, prompt, packer, call, call_log, output_body, s3_output,
                   response>>

NextDynamo == SaveStart \/ PutRecord \/ BatchError

SpecDynamo == InitDynamo /\ [][NextDynamo]_vars

\* ------------------------------------------------------------------ claims

\* lambda_handler has augmented the dataset: it is at or past the output step.
Augmented == pc \in {"serialize", "put", "done"} /\ augmented_data # <<>>

\* C1: in summarize_all mode the combined text embedded in the summary prompt
\* (the prompt after its instructions) is never longer than
\* MAX_CHARS_FOR_SUMMARY_PROMPT.
C1_CombinedTextWithinBudget ==
    (PROMPT_STRATEGY = "summarize_all" /\ prompt # <<>>)
        => /\ prompt = SummaryPrompt(combined_text)
           /\ Len(Tail(prompt)) <= MAX_CHARS_FOR_SUMMARY_PROMPT

\* A summary prompt of two whole entries that fill the budget exactly.
C1_Witness ==
    /\ PROMPT_STRATEGY = "summarize_all"
    /\ pc = "call"
    /\ Len(texts_for_summary_list) = 2
    /\ Len(Tail(prompt)) = MAX_CHARS_FOR_SUMMARY_PROMPT

InsightKey ==
    IF PROMPT_STRATEGY = "per_record" THEN "ai_insight"
    ELSE "ai_overall_summary_insight"

\* The record without the field k.
Without(rec, k) == SelectSeq(rec, LAMBDA f : f.k # k)

\* C2: in both modes the augmented dataset has as many records as the parsed
\* one and record i is input record i, field for field and in order, but for
\* the insight field, which every record has once augmentation is over.
C2_IndexPreserved ==
    augmented_data # <<>> =>
        /\ Len(augmented_data) = Len(original_data)
        /\ \A i \in 1..Len(original_data) :
              /\ augmented_data[i].t = "obj"
              /\ Without(augmented_data[i].rec, InsightKey)
                    = Without(original_data[i].rec, InsightKey)
              /\ Augmented => HasKey(augmented_data[i].rec, InsightKey)

\* A full dataset written after one insight call failed and one succeeded.
C2_Witness ==
    /\ pc = "done"
    /\ response.statusCode = 200
    /\ Len(augmented_data) = MaxRecords
    /\ \E i, j \in 1..Len(call_log) : call_log[i] = "failed" /\ call_log[j] = "ok"

\* C3 as claimed: a call of get_openai_insights attempts the service at most
\* MAX_RETRIES times.
C3_AtMostMaxRetriesAttempts == attempts <= MAX_RETRIES

\* C3 as amended: a call of get_openai_insights attempts the service at most
\* MAX_RETRIES + 1 times, the first attempt and MAX_RETRIES retries.
C3_AtMostMaxRetriesPlusOneAttempts == attempts <= MAX_RETRIES + 1

\* A call that gave up after its last retry failed with an API error.
C3_Witness ==
    /\ attempts = MAX_RETRIES + 1
    /\ IsAPIError(last_response)
    /\ pc # "call"
    /\ slept = 7

\* C4: get_openai_insights goes on to another attempt only after a failure
\* with status 429 or >= 500.
C4_RetryOnlyRateLimitOrServerError ==
    (pc = "call" /\ attempts >= 1) => last_response \in {"api_429", "api_500"}

IsErrorMarker(v) == v.t = "str" /\ v.s # <<>> /\ v.s[1] = "Error: "

\* C5: in per_record mode, once the loop is over, a call was made for every
\* record with text and for no other; record i carries an error marker
\* exactly when its own call failed, and the service's insight for its own
\* text when its own call succeeded; and the run ends with the augmented
\* dataset written unless the Parquet conversion or put_object failed.
C5_FailureIsolated ==
    (PROMPT_STRATEGY = "per_record" /\ Augmented) =>
        /\ \A i \in 1..Len(original_data) :
              LET text == GetTextFromRecord(original_data[i].rec)
                  rec == augmented_data[i].rec
              IN  /\ HasKey(rec, "ai_insight")
                  /\ Truthy(text) <=> call_log[i] # "none"
                  /\ call_log[i] = "failed" <=> IsErrorMarker(Get(rec, "ai_insight"))
                  /\ call_log[i] = "ok" =>
                        Get(rec, "ai_insight") = Str(InsightFor(RecordPrompt(text.s)))
                  /\ call_log[i] = "none" =>
                        Get(rec, "ai_insight") = Str(<<"N/A - No suitable text field found">>)
        /\ pc = "done" =>
              \/ /\ response.statusCode = 200
                 /\ s3_output.fmt = OUTPUT_FORMAT
                 /\ s3_output.fmt = "csv" => Len(s3_output.rows) = Len(original_data)
                 /\ s3_output.fmt # "csv" => s3_output.data = augmented_data
              \/ /\ response.statusCode = 500
                 /\ response.body = "Failed to save augmented dataset"
              \/ /\ response.statusCode = 500
                 /\ response.body = "Failed to prepare Parquet output"
                 /\ OUTPUT_FORMAT = "parquet"

\* The first record's call failed, a later record's call succeeded, and the
\* dataset was written.
C5_Witness ==
    /\ PROMPT_STRATEGY = "per_record"
    /\ pc = "done"
    /\ response.statusCode = 200
    /\ s3_output.fmt = "json"
    /\ Len(call_log) = MaxRecords
    /\ call_log[1] = "failed"
    /\ \A i \in 2..Len(call_log) : call_log[i] = "ok"
    /\ last_response = "ok"

\* The parser rejects the file for its structure: undecodable bytes,
\* malformed JSON or CSV, a JSON list holding a non-object, unreadable Parquet.
StructuralFailure ==
    /\ file_content_bytes.kind # "empty"
    /\ ParseBody(file_content_bytes, file_type, PYARROW_AVAILABLE).exc \in
          {"UnicodeDecodeError", "JSONDecodeError", "csv.Error", "ArrowInvalid",
           "not all items are objects"}

\* C6: process_data on a .json file that is no single JSON value and whose
\* non-blank lines are each a JSON object returns one record per line, in
\* line order.
C6_JsonLinesParsed ==
    (/\ pc = "parsed"
     /\ file_type = "json"
     /\ file_content_bytes.kind = "text"
     /\ ~JsonLoads(file_content_bytes.lines).ok
     /\ NonBlank(file_content_bytes.lines) # <<>>
     /\ \A i \in 1..Len(file_content_bytes.lines) :
           \/ file_content_bytes.lines[i].kind = "blank"
           \/ /\ file_content_bytes.lines[i].kind = "json"
              /\ file_content_bytes.lines[i].val.t = "obj")
        => LET lines == NonBlank(file_content_bytes.lines)
           IN  original_data = [i \in 1..Len(lines) |-> Obj(lines[i].val.rec)]

\* C7: when the parse fails structurally, lambda_handler does not return
\* statusCode 200.
C7_ParseFailureIsNotSuccess ==
    (pc = "done" /\ StructuralFailure) => response.statusCode # 200

\* C9: the header of the CSV that lambda_handler writes holds every key of
\* every augmented record.
C9_HandlerCsvHeaderIsUnion ==
    (pc = "done" /\ response.statusCode = 200 /\ s3_output.fmt = "csv"
        /\ ~s3_output.empty)
        => \A i \in 1..Len(augmented_data) :
              \A k \in KeySet(augmented_data[i].rec) :
                 \E j \in 1..Len(s3_output.header) : s3_output.header[j] = k

\* C10: for a .parquet input without the codec, what process_data returns
\* differs from what it returns for empty input, for an unsupported
\* extension and for malformed input.
C10_CapabilityUnavailableIsDistinct ==
    (/\ pc = "parsed"
     /\ file_type = "parquet"
     /\ ~PYARROW_AVAILABLE
     /\ file_content_bytes.kind # "empty")
        => /\ original_data # ProcessData(EmptyBytes, file_type, PYARROW_AVAILABLE)
           /\ original_data # ProcessData(file_content_bytes, "xml", PYARROW_AVAILABLE)
           /\ original_data # ProcessData(TextBytes(<<BadLine>>), "json", PYARROW_AVAILABLE)

\* Every key of every record of data.
UnionOfKeys(data) == UNION {KeySet(data[i].rec) : i \in 1..Len(data)}

\* C8: serialize_output with format csv on a non-empty list of records
\* writes as header the keys of all records, each once, in lexicographic
\* order, and one row per record whose cell is empty in every column whose
\* key the record lacks (no header and no row when no record has a key).
C8_CsvHeaderSortedUnion ==
    (/\ pc = "serialized"
     /\ OUTPUT_FORMAT = "csv"
     /\ augmented_data # <<>>
     /\ \A i \in 1..Len(augmented_data) : augmented_data[i].t = "obj")
        => LET out == serialized.body
               keys == UnionOfKeys(augmented_data)
           IN  /\ serialized.exc = "none"
               /\ out.fmt = "csv"
               /\ {out.header[j] : j \in 1..Len(out.header)} = keys
               /\ Len(out.header) = Cardinality(keys)
               /\ \A j \in 1..Len(out.header) - 1 :
                     Rank(out.header[j]) < Rank(out.header[j + 1])
               /\ keys # {} =>
                     /\ ~out.empty
                     /\ Len(out.rows) = Len(augmented_data)
                     /\ \A i \in 1..Len(out.rows) :
                           /\ Len(out.rows[i]) = Len(out.header)
                           /\ \A j \in 1..Len(out.header) :
                                 ~HasKey(augmented_data[i].rec, out.header[j])
                                    => out.rows[i][j] = <<>>

\* A CSV whose header has a key the first record lacks and comes before the
\* first record's keys, with an empty cell in the first row.
C8_Witness ==
    /\ pc = "serialized"
    /\ OUTPUT_FORMAT = "csv"
    /\ Len(augmented_data) >= 2
    /\ ~serialized.body.empty
    /\ Len(serialized.body.header) > Len(augmented_data[1].rec)
    /\ augmented_data[1].rec # <<>>
    /\ ~HasKey(augmented_data[1].rec, serialized.body.header[1])
    /\ serialized.body.rows[1][1] = <<>>

ValidConfig ==
    /\ OPENAI_API_KEY /\ OUTPUT_BUCKET_NAME /\ PYARROW_AVAILABLE
    /\ OUTPUT_FORMAT \in {"json", "csv", "parquet"}
    /\ PROMPT_STRATEGY \in {"per_record", "summarize_all"}

\* C12: for an input file of zero bytes process_data returns the empty list
\* for every type hint, with or without the codec, and lambda_handler with a
\* valid configuration never leaves the read step for a processing step: it
\* makes no attempt on the insight service, writes no output object, and,
\* unless get_object itself failed, ends with 200 'No data to process.'.
C12_EmptyInputShortCircuits ==
    /\ \A t \in {"csv", "json", "txt", "parquet", "xml"}, py \in BOOLEAN :
          ProcessData(EmptyBytes, t, py) = <<>>
    /\ (ValidConfig /\ file_content_bytes = EmptyBytes) =>
          /\ pc \in {"start", "read", "done"}
          /\ original_data = <<>> /\ augmented_data = <<>>
          /\ attempts = 0 /\ prompt = <<>> /\ call_log = <<>>
          /\ output_body = NoBody /\ s3_output = NoBody
          /\ pc = "done" =>
                \/ response = [statusCode |-> 200, body |-> "No data to process."]
                \/ response = [statusCode |-> 500,
                               body |-> "An unexpected error occurred"]

\* A zero-byte .parquet upload answered with the 'no data' outcome.
C12_Witness ==
    /\ pc = "done"
    /\ ValidConfig
    /\ file_content_bytes = EmptyBytes /\ file_type = "parquet"
    /\ response = [statusCode |-> 200, body |-> "No data to process."]
    /\ attempts = 0 /\ s3_output = NoBody

\* C13: in summarize_all mode, when the packing loop is over and the packed
\* list is empty, the insight service is never attempted and no prompt is
\* built; once the dataset is augmented every record, those past
\* MAX_RECORDS_FOR_SUMMARY included, holds the same sentinel
\* 'N/A - No text to summarize' under ai_overall_summary_insight.
C13_EmptyPackGivesSentinel ==
    (/\ PROMPT_STRATEGY = "summarize_all"
     /\ pc \in {"combine", "serialize", "put", "done"}
     /\ original_data # <<>>
     /\ texts_for_summary_list = <<>>)
    => /\ attempts = 0 /\ prompt = <<>> /\ combined_text = <<>>
       /\ \A i \in 1..Len(call_log) : call_log[i] = "none"
       /\ pc # "combine" =>
             /\ Len(augmented_data) = Len(original_data)
             /\ \A i \in 1..Len(augmented_data) :
                   /\ HasKey(augmented_data[i].rec, "ai_overall_summary_insight")
                   /\ Get(augmented_data[i].rec, "ai_overall_summary_insight")
                        = Str(<<"N/A - No text to summarize">>)

\* The budget leaves no room after the first prefix, and a record past
\* MAX_RECORDS_FOR_SUMMARY has text: all records hold the sentinel.
C13_Witness ==
    /\ PROMPT_STRATEGY = "summarize_all"
    /\ pc = "done"
    /\ MAX_RECORDS_FOR_SUMMARY < Len(original_data)
    /\ MAX_CHARS_FOR_SUMMARY_PROMPT = PrefixLen
    /\ Truthy(GetTextFromRecord(original_data[1].rec))
    /\ Truthy(GetTextFromRecord(original_data[Len(original_data)].rec))
    /\ texts_for_summary_list = <<>>
    /\ attempts = 0
    /\ \A i \in 1..Len(augmented_data) :
          Get(augmented_data[i].rec, "ai_overall_summary_insight")
            = Str(<<"N/A - No text to summarize">>)

\* The label of the record at 1-based position i of the dataset.
Label(i) == <<"R", "e", "c", "o", "r", "d", " ">> \o DecimalDigits(i) \o <<":", " ">>

RECURSIVE TextBearingFrom(_)
\* The 1-based positions, from i on and in input order, of the eligible
\* records that have text to pack.
TextBearingFrom(i) ==
    IF i > Len(original_data) \/ i > MAX_RECORDS_FOR_SUMMARY THEN <<>>
    ELSE LET text == GetTextFromRecord(original_data[i].rec)
         IN  (IF IsStr(text) /\ text.s # <<>> THEN <<i>> ELSE <<>>)
                \o TextBearingFrom(i + 1)

TextBearing == TextBearingFrom(1)

\* The whole entry of the record at position i.
WholeEntry(i) == Label(i) \o GetTextFromRecord(original_data[i].rec).s

IsPrefixOf(s, t) == Len(s) <= Len(t) /\ s = SubSeq(t, 1, Len(s))

\* C16: in summarize_all mode the packed entries are, in input order, those
\* of the first text-bearing eligible records: entry j is the label of the
\* j-th such record followed by its text (whole, or cut when it is the only
\* entry).  While the loop runs every text-bearing record seen so far is
\* packed; once it is over, if some text-bearing eligible record is not
\* packed then the first one left out did not fit, and none after it is
\* packed.
C16_PackerGreedyInOrder ==
    (PROMPT_STRATEGY = "summarize_all" /\ pc \notin {"start", "read"})
    => LET n == Len(texts_for_summary_list)
           cand == TextBearing
       IN  /\ n <= Len(cand)
           /\ \A j \in 1..n :
                 \/ texts_for_summary_list[j] = WholeEntry(cand[j])
                 \/ /\ n = 1
                    /\ IsPrefixOf(Label(cand[j]), texts_for_summary_list[j])
                    /\ IsPrefixOf(texts_for_summary_list[j], WholeEntry(cand[j]))
           /\ pc = "summarize_all" =>
                 n = Cardinality({j \in 1..Len(cand) : cand[j] <= index})
           /\ (pc # "summarize_all" /\ n > 0 /\ n < Len(cand)) =>
                 \/ Len(Join(texts_for_summary_list)) + 1
                       + Len(WholeEntry(cand[n + 1]))
                     > MAX_CHARS_FOR_SUMMARY_PROMPT
                 \/ n = 1 /\ texts_for_summary_list[1] # WholeEntry(cand[1])

\* The second entry overflowed and the third, which would have fit, is
\* not packed.
C16_Witness ==
    /\ PROMPT_STRATEGY = "summarize_all"
    /\ pc = "done"
    /\ TextBearing = <<1, 2, 3>>
    /\ texts_for_summary_list = <<WholeEntry(1)>>
    /\ Len(WholeEntry(1)) + 1 + Len(WholeEntry(2)) > MAX_CHARS_FOR_SUMMARY_PROMPT
    /\ Len(WholeEntry(1)) + 1 + Len(WholeEntry(3)) <= MAX_CHARS_FOR_SUMMARY_PROMPT

\* The first text-bearing eligible record's entry alone exceeds the budget.
FirstEntryOverflows ==
    /\ PROMPT_STRATEGY = "summarize_all"
    /\ pc \in {"combine", "call", "serialize", "put", "done"}
    /\ TextBearing # <<>>
    /\ Len(WholeEntry(TextBearing[1])) > MAX_CHARS_FOR_SUMMARY_PROMPT

\* C17: when the entry of the first text-bearing eligible record alone
\* exceeds the budget B, after the loop: if B - len(prefix) > 0 the packed
\* list is the single entry prefix + text[:B - len(prefix)], of length B,
\* and the combined text built from it has length B; otherwise the packed
\* list is empty.
C17_FirstEntryTruncatedToBudget ==
    FirstEntryOverflows
    => LET f == TextBearing[1]
           B == MAX_CHARS_FOR_SUMMARY_PROMPT
           text == GetTextFromRecord(original_data[f].rec).s
       IN  IF B - Len(Label(f)) > 0
           THEN /\ texts_for_summary_list
                     = <<Label(f) \o SubSeq(text, 1, B - Len(Label(f)))>>
                /\ Len(texts_for_summary_list[1]) = B
                /\ pc # "combine" =>
                      combined_text = texts_for_summary_list[1]
                      /\ Len(combined_text) = B
           ELSE texts_for_summary_list = <<>>

\* The first record has no text, the second is cut to one character of
\* text, and the third, which has text, is not packed.
C17_Witness ==
    /\ FirstEntryOverflows
    /\ pc = "done"
    /\ TextBearing = <<2, 3>>
    /\ MAX_CHARS_FOR_SUMMARY_PROMPT = Len(Label(2)) + 1
    /\ Len(texts_for_summary_list) = 1
    /\ Len(combined_text) = MAX_CHARS_FOR_SUMMARY_PROMPT

\* C18: every element of what process_data returns is a mapping, for every
\* input and type hint.
C18_EveryElementIsMapping ==
    pc = "parsed" => \A i \in 1..Len(original_data) : original_data[i].t = "obj"

\* The field has a text value.
IsTextField(rec, k) == \E p \in 1..Len(rec) : rec[p].k = k /\ rec[p].v.t = "str"

\* The value of the first field named k.
ValueOf(rec, k) == rec[CHOOSE p \in 1..Len(rec) : rec[p].k = k].v

\* C14: get_text_from_record returns the value of the first of the preferred
\* field, 'text_content', 'text_column' that is present with a text value;
\* when none is, the text value at the least position of the record; when
\* the record has no text value, no text.  For {"foo": 1, "notes": "hello"}
\* with the preferred field 'text_column' it returns "hello".
C14_ResolutionOrder ==
    pc = "resolved"
    => LET rec == original_data[1].rec
           order == <<text_column_name, "text_content", "text_column">>
           named == {j \in 1..3 : IsTextField(rec, order[j])}
           texts == {p \in 1..Len(rec) : rec[p].v.t = "str"}
       IN  /\ named # {} =>
                 resolved_text
                   = ValueOf(rec, order[CHOOSE j \in named : \A x \in named : j <= x])
           /\ (named = {} /\ texts # {}) =>
                 resolved_text = rec[CHOOSE p \in texts : \A x \in texts : p <= x].v
           /\ texts = {} => resolved_text = [t |-> "none", s |-> <<>>]
           /\ (/\ rec = <<[k |-> "foo", v |-> [t |-> "num", s |-> <<"1">>]],
                           [k |-> "notes",
                            v |-> [t |-> "str", s |-> <<"h", "e", "l", "l", "o">>]]>>
               /\ text_column_name = "text_column")
              => resolved_text = [t |-> "str", s |-> <<"h", "e", "l", "l", "o">>]

\* A record with text under 'text_column' placed before text under
\* 'text_content', resolved with a preferred name it does not have.
C14_Witness ==
    /\ pc = "resolved"
    /\ text_column_name = "body"
    /\ Len(original_data[1].rec) = 3
    /\ original_data[1].rec[1] = Field("notes", Str(TextOf("notes")))
    /\ original_data[1].rec[2] = Field("text_column", Str(TextOf("text_column")))
    /\ original_data[1].rec[3] = Field("text_content", Str(TextOf("text_content")))
    /\ resolved_text = Str(TextOf("text_content"))

\* C15: every item save_to_dynamodb puts for the record at index i has the
\* id made of the source key with '/' replaced by '_', then '_' and i, and
\* the original_file_key and timestamp set by save_to_dynamodb, whatever
\* fields the record holds; the ids of the items of one call are pairwise
\* distinct.
C15_ItemIdentityFromKeyAndIndex ==
    /\ \A j \in 1..Len(table_items) :
          LET item == table_items[j].item
          IN  /\ Get(item, "id") = Str(ItemId(object_key, table_items[j].i))
              /\ Get(item, "original_file_key") = Str(object_key)
              /\ Get(item, "timestamp") = Timestamp
    /\ \A j, k \in 1..Len(table_items) :
          j # k => Get(table_items[j].item, "id") # Get(table_items[k].item, "id")

====
